---- MODULE Spec2Model ----
(***************************************************************************)
(* A model of the AI-Interviewer front end: the InterviewScreen component  *)
(* (nudge manager, speech-rate analyzer, playback scheduler, session       *)
(* lifecycle) and the GeminiService streaming adapter it drives.           *)
(*                                                                         *)
(* Time is Date.now() in milliseconds (now) and the playback context's     *)
(* currentTime in milliseconds (clock).  Handlers run to completion, as    *)
(* on the JavaScript event loop; an await is a cut between two actions.    *)
(***************************************************************************)
EXTENDS Integers, Sequences, FiniteSets, TLC

\* ---------------------------------------------------------------- constants

NUDGE_COOLDOWN == 30000
NUDGE_DISPLAY_TIME == 5000
WINDOW_MS == 3000
MIN_PEAK_DIST == 150
SPEAKING_MS == 200
WAKE_REPEAT_MS == 200
FINALIZE_MS == 500
OUT_RATE == 24000
SECONDS == 60

\* 0x8000 and 0x7FFF, the two scales of 16-bit PCM, and the size of Int16
PCM_NEG == 32768
PCM_POS == 32767
INT16_SIZE == 65536

\* ------------------------------------------------------------------- bounds

\* Date.now() when the component mounts (any value far above the cooldown)
NowBase == 100000
\* the horizon of Date.now() explored, in ms after NowBase
MaxElapsed == 35000
\* the horizon of the playback clock, in ms: shorter than the 200 ms timeouts
MaxClock == 150
\* the horizon of Date.now() explored on the adapter, in ms after NowBase
MaxWait == 200
\* inbound audio messages delivered to the playback scheduler
MaxSegs == 3
\* inbound messages delivered to the adapter
MaxMsgs == 2
\* outbound realtime inputs recorded
MaxSent == 2
\* remote sessions opened on the adapter
MaxSessions == 2
\* the step of the playback clock, in ms
ClockStep == 50
\* the largest timestamp passed to analyze
MaxStamp == 3
\* the longest configured interview, in minutes
MaxMinutes == 1
\* handleEndSession calls explored
MaxEnds == 2
\* the length of a buffer stream, in ms
MaxStream == 9000
\* samples are multiples of 1 / Unit: Unit stands for the sample value 1.0
Unit == 40000
\* the samples of one audio chunk
MaxChunk == 2
\* the InterviewScreen is mounted again at most MaxRestarts times,
\* RestartStep ms after the report was shown
MaxRestarts == 1
RestartStep == 1000

\* the gaps of the evenly spaced buffer streams, one threshold crossing per
\* buffer: at the minimal peak distance, around it, and far slower
Gaps == {100, MIN_PEAK_DIST, MIN_PEAK_DIST + 1, 300, 1000, 1600}

\* elapsed times between two events of the nudge scenarios: buffers 1500 ms
\* apart, and a pause that ends just before or at the end of the cooldown
Deltas == {1500, NUDGE_COOLDOWN - 3001, NUDGE_COOLDOWN - 3000}

\* this.session = null
NoSession == 0
Sessions == 1..MaxSessions
None == "none"

Max(a, b) == IF a >= b THEN a ELSE b

VARIABLES
  now,            \* Date.now()
  pc,             \* where startSession / the component is
  hasStarted,     \* useState
  isConnected,    \* useState
  errorMsg,       \* useState: "none", "media", "connection"
  closure,        \* the state values seen by the handlers startSession installed
  processorOn,    \* onaudioprocess is installed and the capture context is open
  nudges,         \* useState: sequence of Nudge
  lastNudgeTime,  \* lastNudgeTimeRef: type -> last admitted Date.now(), 0 when absent
  nudgeTimers,    \* pending removal timeouts: [id, due]
  nextId,         \* the next fresh nudge id
  speech,         \* speechRateDataRef: [peaks, startTime, lastPeakTime]
  stream,         \* the evenly spaced buffer stream fed to the capture callback:
                  \* its gap, the crossings fed in this window, the last evaluation
  call,           \* the addNudge call of the last handler run and what it did
  recorder,       \* mediaRecorderRef state: "none", "recording", "inactive"
  looping,        \* animationFrameRef holds a requested frame for loop
  finishTimer,    \* the 500 ms timeout of handleEndSession is pending
  finished,       \* number of onFinish calls
  handedOff,      \* the transcript given to onFinish
  session,        \* GeminiService.session
  transcript,     \* GeminiService.transcript
  remote,         \* per session of ai.live.connect: "none", "connecting", "open", "closed", "failed"
  sent,           \* realtime inputs given to session.sendRealtimeInput
  wakeTimers,     \* pending second wake tones: [s, due]
  op,             \* the adapter method the client called last, and the state it found
  nextStartTime,  \* nextStartTimeRef (ms)
  clock,          \* outputAudioContext.currentTime (ms)
  ctxState,       \* outputAudioContext: "none", "running", "suspended", "closed"
  resumeQ,        \* onAudioData calls waiting in await resume(), in call order
  scheduled,      \* source.start calls: [seg, start, dur]
  aiSpeaking,     \* useState
  speakTimers,    \* pending setAiSpeaking(false) timeouts: their due times
  msgs,           \* inbound messages delivered so far
  ev,             \* the last inbound message and what its handler did
  vision,         \* VisionService: isInitialized, lastTimestamp, the three frame counters
  vcall,          \* the VisionService method called last, the state it found, what it returned
  mounted,        \* InterviewScreen is mounted
  durationMinutes,\* config.durationMinutes
  timeLeft,       \* useState: seconds left
  ticking,        \* the countdown interval is set
  tracks,         \* the camera/microphone stream of startSession: "none", "live", "stopped"
  released,       \* what the unmount cleanup released, in order
  artifact,       \* the recording given to onFinish last: "none", "null", "blob"
  ends,           \* number of handleEndSession calls
  pcm,            \* the last chunk sendAudioChunk encoded: its samples and its data
  report,         \* ReportScreen: its state and what its report call came to
  mountedAt       \* Date.now() when the App mounted this InterviewScreen

screenVars == <<pc, hasStarted, isConnected, errorMsg, closure, processorOn,
                recorder, looping, finishTimer, finished, handedOff>>
nudgeData == <<nudges, lastNudgeTime, nudgeTimers, nextId, speech, stream>>
nudgeVars == <<nudgeData, call>>
adapterData == <<session, transcript, remote, sent, wakeTimers>>
adapterVars == <<adapterData, op>>
playData == <<nextStartTime, clock, ctxState, resumeQ, scheduled, aiSpeaking,
              speakTimers, msgs>>
playVars == <<playData, ev>>
visionVars == <<vision, vcall>>
lifeVars == <<mounted, durationMinutes, timeLeft, ticking, tracks, released, artifact, ends>>
appVars == <<pcm, report, mountedAt>>
vars == <<now, screenVars, nudgeVars, adapterVars, playVars, visionVars, lifeVars,
          appVars>>

\* no addNudge call was made by the last handler run
NoCall == [type |-> None, message |-> None, at |-> 0, last |-> 0, active |-> 0,
           admitted |-> FALSE]

\* no window of the buffer stream has been evaluated yet
NoWindow == [evaluated |-> FALSE, crossings |-> 0, peaks |-> 0, elapsed |-> 0,
             trigger |-> None]

\* no buffer stream is being fed to the capture callback
NoStream == [gap |-> 0, crossings |-> 0, last |-> NoWindow]

\* the last step was not a call of an adapter method by the client
NoOp == [name |-> None, hadSession |-> FALSE, open |-> FALSE, sentBefore |-> <<>>,
         timersBefore |-> {}, errorBefore |-> None]

\* the last handler run was not an inbound message or an enqueue
NoEvent == [kind |-> None, threw |-> FALSE, texts |-> 0, before |-> 0,
            cursorBefore |-> 0, clockAt |-> 0, bytes |-> 0,
            parts |-> {}, had |-> <<>>, forwarded |-> <<>>]

NudgeTypes == {"posture", "eye-contact", "audio", "general"}

\* new VisionService(): nothing initialized, lastTimestamp = -1, counters 0
NewVision == [isInitialized |-> FALSE, lastTimestamp |-> -1, totalFrames |-> 0,
              eyeContactFrames |-> 0, goodPostureFrames |-> 0]

\* analyze returned null
NullResult == [null |-> TRUE, eyeContactIssue |-> FALSE, postureIssue |-> FALSE]

\* getSummary was not called
NoSummary == [noData |-> FALSE, eyeContactPct |-> 0, posturePct |-> 0]

\* the last step was not a call of a VisionService method
NoVCall == [name |-> None, ts |-> 0, before |-> NewVision, detected |-> FALSE,
            threw |-> FALSE, result |-> NullResult, summary |-> NoSummary]

\* no chunk has been encoded yet
NoPcm == [op |-> None, samples |-> <<>>, data |-> <<>>, open |-> FALSE]

\* ReportScreen is not mounted
NoReport == [stage |-> None, data |-> "null", calls |-> 0, timers |-> 0]

\* ReportScreen after its first render and effects: loading, report null, one
\* generateReport call awaited
LoadingReport == [stage |-> "loading", data |-> "null", calls |-> 1, timers |-> 0]

\* the state after the first render of InterviewScreen, adapter freshly constructed
Init ==
  /\ now = NowBase
  /\ pc = "ready"
  /\ hasStarted = FALSE
  /\ isConnected = FALSE
  /\ errorMsg = None
  /\ closure = [hasStarted |-> FALSE, nudges |-> <<>>, aiSpeaking |-> FALSE]
  /\ processorOn = FALSE
  /\ nudges = <<>>
  /\ lastNudgeTime = [t \in NudgeTypes |-> 0]
  /\ nudgeTimers = {}
  /\ nextId = 1
  /\ speech = [peaks |-> 0, startTime |-> 0, lastPeakTime |-> 0]
  /\ stream = NoStream
  /\ call = NoCall
  /\ recorder = "none"
  /\ looping = FALSE
  /\ finishTimer = FALSE
  /\ finished = 0
  /\ handedOff = <<>>
  /\ session = NoSession
  /\ transcript = <<>>
  /\ remote = [k \in Sessions |-> "none"]
  /\ sent = <<>>
  /\ wakeTimers = {}
  /\ op = NoOp
  /\ nextStartTime = 0
  /\ clock = 0
  /\ ctxState = "none"
  /\ resumeQ = <<>>
  /\ scheduled = <<>>
  /\ aiSpeaking = FALSE
  /\ speakTimers = {}
  /\ msgs = 0
  /\ ev = NoEvent
  /\ vision = NewVision
  /\ vcall = NoVCall
  /\ mounted = TRUE
  /\ durationMinutes \in 1..MaxMinutes
  /\ timeLeft = durationMinutes * SECONDS
  /\ ticking = FALSE
  /\ tracks = "none"
  /\ released = <<>>
  /\ artifact = None
  /\ ends = 0
  /\ pcm = NoPcm
  /\ report = NoReport
  /\ mountedAt = NowBase

\* ------------------------------------------------------- nudge manager

\* the nudge manager's data, passed through the calls of one handler
NudgeState == [nudges |-> nudges, lastNudgeTime |-> lastNudgeTime,
               nudgeTimers |-> nudgeTimers, nextId |-> nextId, call |-> NoCall]

\* a cooldown test that also rejects at exactly NUDGE_COOLDOWN
AdmitsLate(seen, last, t) == ~(Len(seen) > 0) /\ ~(t - last <= NUDGE_COOLDOWN)

\* addNudge's two early returns. seen is the nudges array the function closes
\* over, last is lastNudgeTimeRef.current[type] || 0, t is Date.now().
Admits(seen, last, t) == ~(Len(seen) > 0) /\ ~(t - last < NUDGE_COOLDOWN)

\* a nudge manager that adds the new nudge to those shown
ShownAppended(prev, n) == Append(prev, n)

\* setNudges([newNudge]): the new state of the nudges array
Shown(prev, n) == <<n>>

\* addNudge(type, message) at Date.now() = t, as a function of the nudge state
AddNudge(ns, type, message, seen, t) ==
  LET last == ns.lastNudgeTime[type]
      ok == Admits(seen, last, t)
      n == [id |-> ns.nextId, type |-> type, message |-> message, timestamp |-> t]
      c == [type |-> type, message |-> message, at |-> t, last |-> last,
            active |-> Len(ns.nudges),
            admitted |-> ok]
  IN IF ok
     THEN [nudges |-> Shown(ns.nudges, n),
           lastNudgeTime |-> [ns.lastNudgeTime EXCEPT ![type] = t],
           nudgeTimers |-> ns.nudgeTimers \cup {[id |-> ns.nextId, due |-> t + NUDGE_DISPLAY_TIME]},
           nextId |-> ns.nextId + 1,
           call |-> c]
     ELSE [ns EXCEPT !.call = c]

\* a removal timeout that clears the nudges shown
RemoveShown(prev, id) == <<>>

\* the removal timeout's updater: prev.filter(n => n.id !== newNudge.id)
RemoveById(prev, id) == SelectSeq(prev, LAMBDA n : n.id # id)

SetNudgeState(ns) ==
  /\ nudges' = ns.nudges
  /\ lastNudgeTime' = ns.lastNudgeTime
  /\ nudgeTimers' = ns.nudgeTimers
  /\ nextId' = ns.nextId
  /\ call' = ns.call

\* ------------------------------------------------- speech-rate analyzer

\* a "too fast" test at 3 peaks per second
TooFastAtThree(peaks, elapsed) == peaks * 1000 > 3 * elapsed

\* now - data.startTime > 3000: the window is over and is evaluated
WindowOver(sp, t) == t - sp.startTime > WINDOW_MS

\* rate = peaks / ((t - startTime) / 1000) compared with 4.5 and 1.5
TooFast(peaks, elapsed) == peaks * 2000 > 9 * elapsed
TooSlow(peaks, elapsed) == peaks * 2000 < 3 * elapsed

\* the rising-edge loop over one buffer with k crossings of the threshold
RECURSIVE CountPeaks(_, _, _)
CountPeaks(sp, k, t) ==
  IF k = 0 THEN sp
  ELSE CountPeaks(IF t - sp.lastPeakTime > MIN_PEAK_DIST
                  THEN [sp EXCEPT !.peaks = sp.peaks + 1, !.lastPeakTime = t]
                  ELSE sp,
                  k - 1, t)

\* analyzeSpeechRate(inputData): the nudge state after the window evaluation
AnalyzeNudge(ns, sp, t, seen, seenSpeaking) ==
  LET elapsed == t - sp.startTime
  IN IF WindowOver(sp, t) /\ sp.peaks > 2 /\ ~seenSpeaking
     THEN IF TooFast(sp.peaks, elapsed)
          THEN AddNudge(ns, "audio", "fast", seen, t)
          ELSE IF TooSlow(sp.peaks, elapsed)
               THEN AddNudge(ns, "audio", "uncertain", seen, t)
               ELSE ns
     ELSE ns

\* an analyzer that counts on without restarting the window
AnalyzeWindowKept(sp, k, t) == CountPeaks(sp, k, t)

\* analyzeSpeechRate(inputData): the window record after the call
AnalyzeWindow(sp, k, t) ==
  CountPeaks(IF WindowOver(sp, t)
             THEN [sp EXCEPT !.peaks = 0, !.startTime = t]
             ELSE sp,
             k, t)

\* ------------------------------------------------------------ adapter sends

\* s = sessionInstance || this.session; if (!s) return
SendTarget(sessionInstance, current) ==
  IF sessionInstance # NoSession THEN sessionInstance ELSE current

\* s.sendRealtimeInput(...): the input handed to session s; a channel that is
\* not open discards it
Input(s, kind, chan) == [s |-> s, kind |-> kind, open |-> chan[s] = "open"]

\* sendAudioChunk(data, sessionInstance)
SendAudioChunk(log, kind, sessionInstance, current, chan) ==
  LET s == SendTarget(sessionInstance, current)
  IN IF s = NoSession THEN log ELSE Append(log, Input(s, kind, chan))

\* sendVideoFrame without its guard on this.session
SendVideoFrameUnguarded(log, current, chan) ==
  Append(log, [s |-> current, kind |-> "image", open |-> FALSE])

\* sendVideoFrame(base64Data)
SendVideoFrame(log, current, chan) ==
  IF current = NoSession THEN log ELSE Append(log, Input(current, "image", chan))

\* connect() up to its await: this.transcript = [], ai.live.connect(...) on a
\* fresh channel k
Unused == {k \in Sessions : remote[k] = "none"}
Fresh == CHOOSE k \in Unused : \A j \in Unused : k <= j

\* an open that leaves the wake tone to the 200 ms timeout alone
ConnectedSilent(k) ==
  /\ remote' = [remote EXCEPT ![k] = "open"]
  /\ session' = k
  /\ sent' = sent
  /\ wakeTimers' = wakeTimers \cup {[s |-> k, due |-> now + WAKE_REPEAT_MS]}

\* the channel k opened: this.session = await sessionPromise, then onopen's
\* sendWakeupSignal(session): a tone now and one 200 ms later
Connected(k) ==
  /\ remote' = [remote EXCEPT ![k] = "open"]
  /\ session' = k
  /\ sent' = SendAudioChunk(sent, "wake", k, k, remote')
  /\ wakeTimers' = wakeTimers \cup {[s |-> k, due |-> now + WAKE_REPEAT_MS]}

\* ----------------------------------------------------------- vision service

\* a reset that leaves the eye-contact and posture counters
ResetTotalOnly(v) == [v EXCEPT !.totalFrames = 0, !.lastTimestamp = -1]

\* reset()
Reset(v) == [v EXCEPT !.totalFrames = 0, !.eyeContactFrames = 0,
                      !.goodPostureFrames = 0, !.lastTimestamp = -1]

\* initialize(): nothing when already initialized; when both landmarkers load,
\* isInitialized = true and the state is reset; when a load fails, the catch
\* leaves the service uninitialized
Initialize(v, loaded) ==
  IF v.isInitialized THEN v
  ELSE IF loaded THEN Reset([v EXCEPT !.isInitialized = TRUE])
  ELSE v

\* the timestamp guard of analyze with < in place of <=
AcceptsRepeated(v, ts) == v.isInitialized /\ ~(ts < v.lastTimestamp \/ ts <= 0)

\* analyze goes on to the detection: the service is initialized and the
\* timestamp is positive and above the last accepted one
Accepts(v, ts) == v.isInitialized /\ ~(ts <= v.lastTimestamp \/ ts <= 0)

\* what detectForVideo and the analysis of its results can give: an exception,
\* or the two issue flags
Detections == [throws : BOOLEAN, eyeContactIssue : BOOLEAN, postureIssue : BOOLEAN]

\* an analyze that counts the frame before it runs the detection
AnalyzedCountingFirst(v, ts, det) ==
  IF ~Accepts(v, ts) THEN v
  ELSE [v EXCEPT
          !.lastTimestamp = ts,
          !.totalFrames = @ + 1,
          !.eyeContactFrames = IF det.throws \/ det.eyeContactIssue THEN @ ELSE @ + 1,
          !.goodPostureFrames = IF det.throws \/ det.postureIssue THEN @ ELSE @ + 1]

\* the service after analyze(video, ts)
Analyzed(v, ts, det) ==
  IF ~Accepts(v, ts) THEN v
  ELSE LET stamped == [v EXCEPT !.lastTimestamp = ts]
       IN IF det.throws THEN stamped
          ELSE [stamped EXCEPT
                  !.totalFrames = @ + 1,
                  !.eyeContactFrames = IF det.eyeContactIssue THEN @ ELSE @ + 1,
                  !.goodPostureFrames = IF det.postureIssue THEN @ ELSE @ + 1]

\* what analyze(video, ts) returns
AnalyzeResult(v, ts, det) ==
  IF ~Accepts(v, ts) \/ det.throws THEN NullResult
  ELSE [null |-> FALSE, eyeContactIssue |-> det.eyeContactIssue,
        postureIssue |-> det.postureIssue]

\* Math.round((part / total) * 100)
Percent(part, total) == (200 * part + total) \div (2 * total)

\* getSummary without its test of totalFrames
SummaryUnguarded(v) ==
  [noData |-> FALSE,
   eyeContactPct |-> Percent(v.eyeContactFrames, Max(v.totalFrames, 1)),
   posturePct |-> Percent(v.goodPostureFrames, Max(v.totalFrames, 1))]

\* getSummary(): the no-data text, or the two percentages
Summary(v) ==
  IF v.totalFrames = 0
  THEN [noData |-> TRUE, eyeContactPct |-> 0, posturePct |-> 0]
  ELSE [noData |-> FALSE,
        eyeContactPct |-> Percent(v.eyeContactFrames, v.totalFrames),
        posturePct |-> Percent(v.goodPostureFrames, v.totalFrames)]

\* ----------------------------------------------------------------- time

\* Date.now() moves on between two events
AdvanceTime ==
  /\ hasStarted
  /\ \E d \in Deltas :
       /\ now + d <= NowBase + MaxElapsed
       /\ now' = now + d
  /\ call' = NoCall
  /\ ev' = NoEvent
  /\ vision' = vision /\ vcall' = NoVCall
  /\ UNCHANGED appVars
  /\ UNCHANGED lifeVars
  /\ op' = NoOp
  /\ UNCHANGED <<screenVars, nudgeData, adapterData, playData>>

\* ------------------------------------------------------ session start

\* the click on "Start Interview", a button rendered while there is no error
\* and the session has not started: startSession up to its first await
BeginSession ==
  /\ ~hasStarted /\ mounted /\ errorMsg = None
  /\ closure' = [hasStarted |-> hasStarted, nudges |-> nudges, aiSpeaking |-> aiSpeaking]
  /\ hasStarted' = TRUE
  /\ errorMsg' = None
  /\ speech' = [speech EXCEPT !.startTime = now]
  /\ stream' = stream
  /\ UNCHANGED appVars
  /\ pc' = "media"
  /\ call' = NoCall
  /\ ev' = NoEvent
  /\ vision' = Reset(vision) /\ vcall' = NoVCall
  /\ UNCHANGED lifeVars
  /\ op' = NoOp
  /\ UNCHANGED <<now, isConnected, processorOn, recorder, looping, finishTimer,
                 finished, handedOff, nudges, lastNudgeTime, nudgeTimers, nextId, adapterData, playData>>

\* Start Interview clicked. After a start that failed the error screen is
\* rendered instead of the button, with a page reload as its only action.
StartSession == pc = "ready" /\ BeginSession

\* visionService.initialize() settled and getUserMedia resolved: capture graph,
\* playback context, then connect() up to its await
MediaGranted ==
  /\ pc = "media"
  /\ processorOn' = TRUE
  /\ ctxState' = "running"
  /\ Unused # {}
  /\ transcript' = <<>>
  /\ remote' = [remote EXCEPT ![Fresh] = "connecting"]
  /\ pc' = "connect"
  /\ call' = NoCall
  /\ ev' = NoEvent
  /\ tracks' = "live"
  /\ clock' = 0
  /\ \E loaded \in BOOLEAN : vision' = Initialize(vision, loaded)
  /\ vcall' = NoVCall
  /\ UNCHANGED appVars
  /\ op' = NoOp
  /\ UNCHANGED <<now, hasStarted, isConnected, errorMsg, closure, recorder, looping,
                 finishTimer, finished, handedOff, nudgeData, session, sent,
                 wakeTimers, nextStartTime, resumeQ, scheduled, aiSpeaking,
                 speakTimers, msgs, mounted, timeLeft, durationMinutes, ticking,
                 released, artifact, ends>>

\* a catch of startSession that leaves the session started
FailedStartKept(started) == started

\* setHasStarted(false) in the catch of startSession
FailedStart(started) == FALSE

\* getUserMedia (or the audio setup) threw: the catch of startSession; the
\* initialize() started with it has settled either way
MediaDenied ==
  /\ pc = "media"
  /\ errorMsg' = "media"
  /\ hasStarted' = FailedStart(hasStarted)
  /\ pc' = "failed"
  /\ call' = NoCall
  /\ ev' = NoEvent
  /\ \E loaded \in BOOLEAN : vision' = Initialize(vision, loaded)
  /\ vcall' = NoVCall
  /\ UNCHANGED appVars
  /\ op' = NoOp
  /\ UNCHANGED <<now, isConnected, closure, processorOn, recorder, looping,
                 finishTimer, finished, handedOff, nudgeData, adapterData, playData,
                 lifeVars>>

\* loop(): the first call, made by startSession. The hasStarted it tests is the
\* one startSession closed over.
LoopRequestsFrame(seenStarted) == seenStarted

\* what new MediaRecorder(stream) and mediaRecorder.start() can come to: the
\* recorder records, start() threw on a recorder that stays inactive, or the
\* constructor threw and the ref keeps what it held
RecorderOutcomes == {"recording", "inactive", "none"}

\* the rest of startSession after connect() returned: setIsConnected(true),
\* which starts the countdown effect of a mounted component, recorder start,
\* loop(); an exception of the recorder goes to the catch of startSession.
\* err is the error message connect's onError left.
AfterConnect(err) ==
  /\ isConnected' = (isConnected \/ mounted)
  /\ ticking' = (ticking \/ mounted)
  /\ \E rec \in RecorderOutcomes :
       IF rec = "recording"
       THEN /\ recorder' = "recording"
            /\ looping' = LoopRequestsFrame(closure.hasStarted)
            /\ pc' = "running"
            /\ errorMsg' = err
            /\ hasStarted' = hasStarted
       ELSE /\ recorder' = IF rec = "none" THEN recorder ELSE "inactive"
            /\ looping' = looping
            /\ pc' = "failed"
            /\ errorMsg' = IF mounted THEN "media" ELSE err
            /\ hasStarted' = (hasStarted /\ ~mounted)
  /\ UNCHANGED <<mounted, timeLeft, durationMinutes, tracks, released, artifact, ends>>

\* the remote channel opened: this.session is set, onopen's wake tone is sent
\* on the new session and repeated 200 ms later, startSession goes on
ConnectResolved ==
  /\ pc = "connect"
  /\ \E k \in Sessions : remote[k] = "connecting" /\ Connected(k)
  /\ AfterConnect(errorMsg)
  /\ call' = NoCall
  /\ ev' = NoEvent
  /\ vision' = vision /\ vcall' = NoVCall
  /\ UNCHANGED appVars
  /\ op' = NoOp
  /\ UNCHANGED <<now, closure, processorOn, finishTimer,
                 finished, handedOff, nudgeData, transcript, playData>>

\* the remote channel could not be opened: connect's catch calls onError and
\* returns null, startSession goes on
ConnectRejected ==
  /\ pc = "connect"
  /\ \E k \in Sessions :
       remote[k] = "connecting" /\ remote' = [remote EXCEPT ![k] = "failed"]
  /\ AfterConnect(IF mounted THEN "connection" ELSE errorMsg)
  /\ call' = NoCall
  /\ ev' = NoEvent
  /\ vision' = vision /\ vcall' = NoVCall
  /\ UNCHANGED appVars
  /\ op' = NoOp
  /\ UNCHANGED <<now, closure, processorOn, finishTimer, finished,
                 handedOff, nudgeData, session, transcript, sent, wakeTimers, playData>>

\* ------------------------------------------------------- capture callback

Buffers == [active : BOOLEAN, crossings : 0..2]

\* processor.onaudioprocess: send the chunk, then the speech-rate analysis of
\* an active buffer with the state values startSession closed over
OnAudioProcess ==
  /\ processorOn
  /\ session = NoSession \/ Len(sent) < MaxSent
  /\ \E buf \in Buffers :
       /\ sent' = SendAudioChunk(sent, "mic", NoSession, session, remote)
       /\ IF buf.active
          THEN /\ SetNudgeState(AnalyzeNudge(NudgeState, speech, now,
                                             closure.nudges, closure.aiSpeaking))
               /\ speech' = AnalyzeWindow(speech, buf.crossings, now)
               /\ stream' = stream
          ELSE UNCHANGED nudgeData /\ call' = NoCall
  /\ ev' = NoEvent
  /\ vision' = vision /\ vcall' = NoVCall
  /\ UNCHANGED appVars
  /\ UNCHANGED lifeVars
  /\ op' = NoOp
  /\ UNCHANGED <<now, screenVars, session, transcript, remote, wakeTimers, playData>>

\* processor.onaudioprocess on an evenly spaced stream: every buffer is active,
\* holds one rising edge of the threshold, and arrives one gap after the last
StreamBuffer ==
  /\ processorOn
  /\ \E g \in (IF stream.gap = 0 THEN Gaps ELSE {stream.gap}) :
       LET t == now + g
           ns == AnalyzeNudge(NudgeState, speech, t, closure.nudges, closure.aiSpeaking)
       IN /\ t <= NowBase + MaxStream
          /\ now' = t
          /\ sent' = SendAudioChunk(sent, "mic", NoSession, session, remote)
          /\ SetNudgeState(ns)
          /\ speech' = AnalyzeWindow(speech, 1, t)
          /\ stream' = IF WindowOver(speech, t)
                       THEN [gap |-> g, crossings |-> 1,
                             last |-> [evaluated |-> TRUE,
                                       crossings |-> stream.crossings,
                                       peaks |-> speech.peaks,
                                       elapsed |-> t - speech.startTime,
                                       trigger |-> ns.call.message]]
                       ELSE [stream EXCEPT !.gap = g, !.crossings = @ + 1]
  /\ ev' = NoEvent
  /\ vision' = vision /\ vcall' = NoVCall
  /\ UNCHANGED appVars
  /\ UNCHANGED lifeVars
  /\ op' = NoOp
  /\ UNCHANGED <<screenVars, session, transcript, remote, wakeTimers, playData>>

\* a nudge's removal timeout fires, no earlier than 5000 ms after it was set
NudgeTimeout ==
  /\ \E tm \in nudgeTimers :
       /\ now >= tm.due
       /\ nudges' = RemoveById(nudges, tm.id)
       /\ nudgeTimers' = nudgeTimers \ {tm}
  /\ call' = NoCall
  /\ ev' = NoEvent
  /\ vision' = vision /\ vcall' = NoVCall
  /\ UNCHANGED appVars
  /\ UNCHANGED lifeVars
  /\ op' = NoOp
  /\ UNCHANGED <<now, screenVars, lastNudgeTime, nextId, speech, stream,
                 adapterData, playData>>

\* the second wake tone, 200 ms after the first, on the session it was made for
WakeTimeout ==
  /\ \E tm \in wakeTimers :
       /\ now >= tm.due
       /\ sent' = SendAudioChunk(sent, "wake", tm.s, session, remote)
       /\ wakeTimers' = wakeTimers \ {tm}
  /\ call' = NoCall
  /\ ev' = NoEvent
  /\ vision' = vision /\ vcall' = NoVCall
  /\ UNCHANGED appVars
  /\ UNCHANGED lifeVars
  /\ op' = NoOp
  /\ UNCHANGED <<now, screenVars, nudgeData, session, transcript, remote, playData>>

\* the interview screen while the remote endpoint has not answered yet: the
\* capture callback, the nudge manager and its timers
NextNudge ==
  \/ AdvanceTime
  \/ StartSession
  \/ MediaGranted
  \/ MediaDenied
  \/ OnAudioProcess
  \/ NudgeTimeout

SpecNudge == Init /\ [][NextNudge]_vars

\* the speech-rate analyzer on evenly spaced buffer streams
NextSpeech ==
  \/ StartSession
  \/ MediaGranted
  \/ MediaDenied
  \/ StreamBuffer
  \/ NudgeTimeout

SpecSpeech == Init /\ [][NextSpeech]_vars

\* ---------------------------------------------------- inbound messages

\* message.serverContent.modelTurn.parts[0].inlineData.data: absent, or a
\* string that atob accepts (it decodes to bytes bytes) or rejects
NoAudio == [present |-> FALSE, wellFormed |-> TRUE, bytes |-> 0]
SegBytes == {2399, 2400, 4800}
AudioPayloads ==
  {NoAudio, [present |-> TRUE, wellFormed |-> FALSE, bytes |-> 0]}
    \cup {[present |-> TRUE, wellFormed |-> TRUE, bytes |-> b] : b \in SegBytes}

\* the transcript-bearing parts of a message: modelTurn text, output
\* transcription, input transcription
TextSets == {{}, {"text"}, {"in"}, {"text", "out", "in"}}
Messages == [audio : AudioPayloads, texts : TextSets]
\* the messages that carry audio only
AudioMessages == {m \in Messages : m.audio.present /\ m.texts = {}}

\* base64ToUint8Array: atob throws on a string that is not base64
Base64Throws(a) == ~a.wellFormed

\* decodePCMData: new Int16Array(buffer) throws on an odd byte length,
\* createBuffer on a length of zero
DecodeThrows(bytes) == bytes % 2 # 0 \/ bytes \div 2 = 0

\* buffer.duration in ms: pcmData.length samples at 24000 Hz
Duration(bytes) == ((bytes \div 2) * 1000) \div OUT_RATE

\* a start at the playback clock, whatever the cursor
StartAtClock(cursor, clk) == clk

\* Math.max(nextStartTimeRef.current, currentTime)
StartTime(cursor, clk) == Max(cursor, clk)

\* the cursor assigned the duration instead of advanced by it
CursorAssigned(start, dur) == dur

\* nextStartTimeRef.current += buffer.duration
CursorAfter(start, dur) == start + dur

PlayState == [nextStartTime |-> nextStartTime, scheduled |-> scheduled,
              aiSpeaking |-> aiSpeaking, speakTimers |-> speakTimers]

\* onAudioData with the cursor advance outside the try
EnqueueAdvancing(ps, seg, bytes, clk, t) ==
  LET start == Max(ps.nextStartTime, clk)
      pulsed == [ps EXCEPT !.aiSpeaking = TRUE,
                           !.speakTimers = @ \cup {t + SPEAKING_MS},
                           !.nextStartTime = start + ((bytes \div 2) * 1000) \div OUT_RATE]
  IN IF bytes % 2 # 0 \/ bytes \div 2 = 0
     THEN pulsed
     ELSE [pulsed EXCEPT
             !.scheduled = Append(@, [seg |-> seg, start |-> start,
                                      dur |-> ((bytes \div 2) * 1000) \div OUT_RATE])]

\* onAudioData after its await: the speaking pulse, the cursor raised to the
\* clock, then decode, source.start and the cursor advance inside the try
Enqueue(ps, seg, bytes, clk, t) ==
  LET start == StartTime(ps.nextStartTime, clk)
      pulsed == [ps EXCEPT !.aiSpeaking = TRUE,
                           !.speakTimers = @ \cup {t + SPEAKING_MS},
                           !.nextStartTime = start]
  IN IF DecodeThrows(bytes)
     THEN pulsed
     ELSE [pulsed EXCEPT
             !.scheduled = Append(@, [seg |-> seg, start |-> start,
                                      dur |-> Duration(bytes)]),
             !.nextStartTime = CursorAfter(start, Duration(bytes))]

SetPlayState(ps) ==
  /\ nextStartTime' = ps.nextStartTime
  /\ scheduled' = ps.scheduled
  /\ aiSpeaking' = ps.aiSpeaking
  /\ speakTimers' = ps.speakTimers

\* the items onmessage pushes for a message, in the order of its three ifs
RECURSIVE Items(_, _, _)
Items(texts, order, t) ==
  IF order = <<>> THEN <<>>
  ELSE (IF Head(order) \in texts
        THEN <<[role |-> IF Head(order) = "in" THEN "user" ELSE "model",
                text |-> Head(order), timestamp |-> t]>>
        ELSE <<>>) \o Items(texts, Tail(order), t)

TextOrder == <<"text", "out", "in">>

\* callbacks.onmessage of a channel: the audio part through
\* base64ToUint8Array and onAudioData (up to its await), then the three
\* transcript parts. A throw of base64ToUint8Array ends the handler.
Deliver(M) ==
  /\ \E k \in Sessions, m \in M :
       /\ remote[k] = "open"
       /\ msgs' = msgs + 1
       /\ LET a == m.audio
              threw == a.present /\ Base64Throws(a)
              toPlayback == a.present /\ ~threw /\ ctxState # "none"
              waits == toPlayback /\ ctxState = "suspended"
          IN /\ ev' = [kind |-> IF ~a.present THEN "noaudio"
                                ELSE IF threw THEN "badbase64"
                                ELSE IF ~toPlayback THEN "nocontext"
                                ELSE IF waits THEN "awaits"
                                ELSE IF DecodeThrows(a.bytes) THEN "dropped"
                                ELSE "scheduled",
                        threw |-> threw, texts |-> Cardinality(m.texts),
                        before |-> Len(transcript),
                        cursorBefore |-> nextStartTime, clockAt |-> clock,
                        bytes |-> a.bytes, parts |-> m.texts, had |-> transcript,
                        forwarded |-> IF threw THEN <<>>
                                      ELSE Items(m.texts, TextOrder, now)]
             /\ resumeQ' = IF waits
                           THEN Append(resumeQ, [seg |-> msgs + 1, bytes |-> a.bytes])
                           ELSE resumeQ
             /\ IF toPlayback /\ ~waits
                THEN SetPlayState(Enqueue(PlayState, msgs + 1, a.bytes, clock, now))
                ELSE UNCHANGED <<nextStartTime, scheduled, aiSpeaking, speakTimers>>
             /\ transcript' = IF threw THEN transcript
                              ELSE transcript \o Items(m.texts, TextOrder, now)
  /\ call' = NoCall
  /\ vision' = vision /\ vcall' = NoVCall
  /\ UNCHANGED appVars
  /\ UNCHANGED lifeVars
  /\ op' = NoOp
  /\ UNCHANGED <<now, screenVars, nudgeData, session, remote, sent, wakeTimers,
                 clock, ctxState>>

\* an inbound message that carries audio only
OnAudioMessage == msgs < MaxSegs /\ Deliver(AudioMessages)

\* any inbound message; the adapter does not look at the size of a payload
\* that atob accepts, so one size stands for all
OnMessage ==
  msgs < MaxMsgs /\ Deliver({m \in Messages : m.audio.bytes \in {0, OUT_RATE \div 10}})

\* the resume() awaited by the oldest waiting onAudioData call completes: the
\* context runs and that call goes on
ResumeDone ==
  /\ resumeQ # <<>>
  /\ ctxState \in {"suspended", "running"}
  /\ ctxState' = "running"
  /\ resumeQ' = Tail(resumeQ)
  /\ ev' = [kind |-> IF DecodeThrows(Head(resumeQ).bytes) THEN "dropped" ELSE "scheduled",
            threw |-> FALSE, texts |-> 0, before |-> Len(transcript),
            cursorBefore |-> nextStartTime, clockAt |-> clock,
            bytes |-> Head(resumeQ).bytes,
            parts |-> {}, had |-> transcript, forwarded |-> <<>>]
  /\ SetPlayState(Enqueue(PlayState, Head(resumeQ).seg, Head(resumeQ).bytes, clock, now))
  /\ call' = NoCall
  /\ vision' = vision /\ vcall' = NoVCall
  /\ UNCHANGED appVars
  /\ UNCHANGED lifeVars
  /\ op' = NoOp
  /\ UNCHANGED <<now, screenVars, nudgeData, adapterData, clock, msgs>>

\* the platform suspends the playback context
ContextSuspended ==
  /\ ctxState = "running"
  /\ ctxState' = "suspended"
  /\ call' = NoCall /\ ev' = NoEvent
  /\ vision' = vision /\ vcall' = NoVCall
  /\ UNCHANGED appVars
  /\ UNCHANGED lifeVars
  /\ op' = NoOp
  /\ UNCHANGED <<now, screenVars, nudgeData, adapterData, nextStartTime, clock,
                 resumeQ, scheduled, aiSpeaking, speakTimers, msgs>>

\* the playback clock moves on while the context runs
AdvanceClock ==
  /\ ctxState = "running"
  /\ clock + ClockStep <= MaxClock
  /\ clock' = clock + ClockStep
  /\ call' = NoCall /\ ev' = NoEvent
  /\ vision' = vision /\ vcall' = NoVCall
  /\ UNCHANGED appVars
  /\ UNCHANGED lifeVars
  /\ op' = NoOp
  /\ UNCHANGED <<now, screenVars, nudgeData, adapterData, nextStartTime, ctxState,
                 resumeQ, scheduled, aiSpeaking, speakTimers, msgs>>

\* Date.now() moves on by the length of the short timeouts
ShortWait ==
  /\ now + SPEAKING_MS <= NowBase + MaxWait
  /\ now' = now + SPEAKING_MS
  /\ call' = NoCall /\ ev' = NoEvent
  /\ vision' = vision /\ vcall' = NoVCall
  /\ UNCHANGED appVars
  /\ UNCHANGED lifeVars
  /\ op' = NoOp
  /\ UNCHANGED <<screenVars, nudgeData, adapterData, nextStartTime, clock, ctxState,
                 resumeQ, scheduled, aiSpeaking, speakTimers, msgs>>

\* setTimeout(() => setAiSpeaking(false), 200) fires
SpeakTimeout ==
  /\ \E due \in speakTimers :
       /\ now >= due
       /\ speakTimers' = speakTimers \ {due}
  /\ aiSpeaking' = FALSE
  /\ call' = NoCall /\ ev' = NoEvent
  /\ vision' = vision /\ vcall' = NoVCall
  /\ UNCHANGED appVars
  /\ UNCHANGED lifeVars
  /\ op' = NoOp
  /\ UNCHANGED <<now, screenVars, nudgeData, adapterData, nextStartTime, clock,
                 ctxState, resumeQ, scheduled, msgs>>

\* an inbound message that carries one well-formed audio segment and no text
OnSegment ==
  msgs < MaxMsgs /\ Deliver({m \in AudioMessages : m.audio.bytes = OUT_RATE \div 10})

\* processor.onaudioprocess on a buffer stream that begins once the session
\* is connected
ConnectedBuffer == isConnected /\ StreamBuffer

\* the capture callback on a buffer stream while the remote endpoint speaks:
\* the speech-rate analyzer and the speaking indicator side by side
NextSpeaking ==
  \/ StartSession
  \/ MediaGranted
  \/ MediaDenied
  \/ ConnectResolved
  \/ ConnectRejected
  \/ ConnectedBuffer
  \/ OnSegment
  \/ SpeakTimeout

SpecSpeaking == Init /\ [][NextSpeaking]_vars

\* callbacks.onclose: the remote endpoint closed the channel; the handler logs
RemoteClosed ==
  /\ \E k \in Sessions :
       /\ remote[k] = "open"
       /\ remote' = [remote EXCEPT ![k] = "closed"]
  /\ call' = NoCall /\ ev' = NoEvent
  /\ vision' = vision /\ vcall' = NoVCall
  /\ UNCHANGED appVars
  /\ UNCHANGED lifeVars
  /\ op' = NoOp
  /\ UNCHANGED <<now, screenVars, nudgeData, session, transcript, sent, wakeTimers,
                 nextStartTime, clock, ctxState, resumeQ, scheduled, aiSpeaking,
                 speakTimers, msgs>>

\* callbacks.onerror: a fatal error of the channel; the handler logs and calls
\* onError, which sets the error message of the screen
RemoteError ==
  /\ \E k \in Sessions :
       /\ remote[k] = "open"
       /\ remote' = [remote EXCEPT ![k] = "closed"]
  /\ errorMsg' = "connection"
  /\ call' = NoCall /\ ev' = NoEvent
  /\ vision' = vision /\ vcall' = NoVCall
  /\ UNCHANGED appVars
  /\ UNCHANGED lifeVars
  /\ op' = NoOp
  /\ UNCHANGED <<now, pc, hasStarted, isConnected, closure, processorOn, recorder,
                 looping, finishTimer, finished, handedOff, nudgeData, session,
                 transcript, sent, wakeTimers, nextStartTime, clock, ctxState,
                 resumeQ, scheduled, aiSpeaking, speakTimers, msgs>>

\* the interview screen and the remote endpoint during the first MaxClock ms
\* after the session start: inbound audio and its playback. No 200 ms timeout
\* is due and no capture buffer is complete within that time.
NextPlayback ==
  \/ StartSession
  \/ MediaGranted
  \/ MediaDenied
  \/ ConnectResolved
  \/ ConnectRejected
  \/ OnAudioMessage
  \/ ResumeDone
  \/ ContextSuspended
  \/ AdvanceClock
  \/ RemoteClosed
  \/ RemoteError

SpecPlayback == Init /\ [][NextPlayback]_vars

\* ------------------------------------------------- session end and unmount

\* what a call of an adapter method found
Called(name) == [name |-> name, hadSession |-> session # NoSession,
                 open |-> session # NoSession /\ remote[session] = "open",
                 sentBefore |-> sent, timersBefore |-> wakeTimers,
                 errorBefore |-> errorMsg]


\* the text getSummary returns
SummaryText(v) ==
  IF Summary(v).noData THEN "No visual analysis data available."
  ELSE "VISUAL ANALYSIS SUMMARY"

\* handleEndSession with the hand-off of its else branch left out
RecorderAlwaysAwaited(rec) == TRUE

\* the branch of handleEndSession that stops the recorder
RecorderActive(rec) == rec = "recording"

\* handleEndSession: the summary note, then the recorder stopped and the
\* hand-off left to a 500 ms timeout, or the hand-off at once with null
HandleEndSession ==
  /\ ends' = ends + 1
  /\ transcript' = Append(transcript, [role |-> "SYSTEM_NOTE",
                                       text |-> SummaryText(vision),
                                       timestamp |-> now])
  /\ IF RecorderActive(recorder)
     THEN /\ recorder' = "inactive"
          /\ finishTimer' = TRUE
          /\ UNCHANGED <<finished, handedOff, artifact>>
     ELSE /\ finished' = finished + 1
          /\ handedOff' = transcript'
          /\ artifact' = "null"
          /\ UNCHANGED <<recorder, finishTimer>>

\* the End Interview button, rendered once the session has started and while
\* there is no error
EndClicked ==
  /\ mounted /\ hasStarted /\ errorMsg = None
  /\ ends < MaxEnds
  /\ HandleEndSession
  /\ call' = NoCall /\ ev' = NoEvent /\ op' = NoOp
  /\ UNCHANGED <<now, pc, hasStarted, isConnected, errorMsg, closure, processorOn,
                 looping, nudgeData, session, remote, sent, wakeTimers, playData,
                 visionVars, appVars, mounted, durationMinutes, timeLeft, ticking, tracks,
                 released>>

\* the end test of the countdown one second late
EndsAtZero(prev) == prev <= 0

\* the test of the countdown updater: this tick is the last second
EndsNow(prev) == prev <= 1

\* the updater of the countdown interval: 0 on the last second, else prev - 1
TimeLeftAfter(prev) == IF EndsNow(prev) THEN 0 ELSE prev - 1

\* the countdown interval fires: the updater, and handleEndSession from it
\* when prev <= 1
CountdownTick ==
  /\ ticking
  /\ timeLeft > 1 \/ ends < MaxEnds
  /\ timeLeft' = TimeLeftAfter(timeLeft)
  /\ IF EndsNow(timeLeft)
     THEN HandleEndSession
     ELSE UNCHANGED <<ends, transcript, recorder, finishTimer, finished, handedOff,
                      artifact>>
  /\ call' = NoCall /\ ev' = NoEvent /\ op' = NoOp
  /\ UNCHANGED <<now, pc, hasStarted, isConnected, errorMsg, closure, processorOn,
                 looping, nudgeData, session, remote, sent, wakeTimers, playData,
                 visionVars, appVars, mounted, durationMinutes, ticking, tracks, released>>

\* the 500 ms timeout of handleEndSession fires: the hand-off with the blob
FinishTimeout ==
  /\ finishTimer
  /\ finishTimer' = FALSE
  /\ finished' = finished + 1
  /\ handedOff' = transcript
  /\ artifact' = "blob"
  /\ call' = NoCall /\ ev' = NoEvent /\ op' = NoOp
  /\ UNCHANGED <<now, pc, hasStarted, isConnected, errorMsg, closure, processorOn,
                 recorder, looping, nudgeData, adapterData, playData, visionVars, appVars,
                 mounted, durationMinutes, timeLeft, ticking, tracks, released, ends>>

\* what the cleanup of the unmount effect releases, in the order of its
\* statements. attached: videoRef.current still holds the video element when
\* the cleanup runs.
Releases(attached) ==
  (IF looping THEN <<"loop">> ELSE <<>>)
    \o (IF attached /\ tracks = "live" THEN <<"tracks">> ELSE <<>>)
    \o (IF processorOn THEN <<"capture">> ELSE <<>>)
    \o (IF ctxState # "none" THEN <<"playback">> ELSE <<>>)
    \o (IF session # NoSession THEN <<"channel">> ELSE <<>>)

\* onFinish made the App leave the interview: InterviewScreen unmounts and its
\* effect cleanups run, the unmount cleanup and the clearInterval of the
\* countdown. React detaches videoRef before or after the cleanup, depending
\* on its version. ReportScreen mounts in the same commit and calls generate().
Unmount ==
  /\ mounted /\ finished > 0
  /\ mounted' = FALSE
  /\ ticking' = FALSE
  /\ \E attached \in BOOLEAN :
       /\ released' = Releases(attached)
       /\ tracks' = IF attached /\ tracks = "live" THEN "stopped" ELSE tracks
  /\ looping' = FALSE
  /\ processorOn' = FALSE
  /\ ctxState' = IF ctxState = "none" THEN "none" ELSE "closed"
  /\ remote' = IF session # NoSession /\ remote[session] = "open"
               THEN [remote EXCEPT ![session] = "closed"]
               ELSE remote
  /\ session' = NoSession
  /\ op' = Called("disconnect")
  /\ call' = NoCall /\ ev' = NoEvent
  /\ report' = LoadingReport
  /\ UNCHANGED <<now, pc, hasStarted, isConnected, errorMsg, closure, recorder,
                 finishTimer, finished, handedOff, nudgeData, transcript, sent,
                 wakeTimers, nextStartTime, clock, resumeQ, scheduled, aiSpeaking,
                 speakTimers, msgs, visionVars, durationMinutes, timeLeft, artifact,
                 ends, pcm, mountedAt>>

\* the session from start to hand-off and unmount, with the countdown
NextSession ==
  \/ StartSession
  \/ MediaGranted
  \/ MediaDenied
  \/ ConnectResolved
  \/ ConnectRejected
  \/ CountdownTick
  \/ EndClicked
  \/ FinishTimeout
  \/ Unmount

SpecSession == Init /\ [][NextSession]_vars

\* the End button and the countdown of a screen that has not handed off yet:
\* the commit that follows onFinish unmounts the screen before another click
\* or tick is handled
EndClickedInSession == finished = 0 /\ EndClicked
CountdownTickInSession == finished = 0 /\ CountdownTick

\* the session whose screen is left as soon as it was handed off
NextHandOff ==
  \/ StartSession
  \/ MediaGranted
  \/ MediaDenied
  \/ ConnectResolved
  \/ ConnectRejected
  \/ CountdownTickInSession
  \/ EndClickedInSession
  \/ FinishTimeout
  \/ Unmount

SpecHandOff == Init /\ [][NextHandOff]_vars

\* timeouts and intervals that are due do fire
SpecSessionFair ==
  SpecSession /\ WF_vars(FinishTimeout) /\ WF_vars(CountdownTick)

\* the session with inbound audio and the timers it sets, up to the unmount
NextTeardown ==
  \/ StartSession
  \/ MediaGranted
  \/ MediaDenied
  \/ ConnectResolved
  \/ ConnectRejected
  \/ OnAudioMessage
  \/ ShortWait
  \/ SpeakTimeout
  \/ EndClicked
  \/ FinishTimeout
  \/ Unmount

SpecTeardown == Init /\ [][NextTeardown]_vars

\* ------------------------------------------------------------ report stage

\* what ai.models.generateContent and JSON.parse come to: a JSON text with the
\* whole report, a response without text, a text that does not parse, a
\* rejected request
ReportOutcomes == {"json", "no text", "bad json", "rejected"}

\* generateReport: JSON.parse(response.text || "{}"), or the exception rethrown
GenerateReport(outcome) ==
  CASE outcome = "json" -> [threw |-> FALSE, data |-> "complete"]
    [] outcome = "no text" -> [threw |-> FALSE, data |-> "empty"]
    [] OTHER -> [threw |-> TRUE, data |-> "null"]

\* generate() of ReportScreen: setReport(data), or the fallback report of its catch
ReportSet(prev, r) == IF r.threw THEN "fallback" ELSE r.data

\* the fields the report render reads are all there
Complete(data) == data \in {"complete", "fallback"}

\* what ReportScreen renders: the loader, nothing, the report, or an exception
\* from reading report.dimensions of a report without it
Rendered(rp) ==
  CASE rp.stage = None -> None
    [] rp.stage = "loading" -> "loader"
    [] rp.data = "null" -> "nothing"
    [] Complete(rp.data) -> "report"
    [] OTHER -> "exception"

\* the generateReport call of ReportScreen settles: try, catch and finally
ReportSettled ==
  /\ report.calls > 0
  /\ \E outcome \in ReportOutcomes :
       report' = [report EXCEPT !.data = ReportSet(@, GenerateReport(outcome)),
                                !.calls = @ - 1,
                                !.timers = @ + 1]
  /\ pcm' = pcm /\ mountedAt' = mountedAt
  /\ vision' = vision /\ vcall' = NoVCall
  /\ UNCHANGED lifeVars
  /\ op' = NoOp /\ call' = NoCall /\ ev' = NoEvent
  /\ UNCHANGED <<now, screenVars, nudgeData, adapterData, playData>>

\* the 800 ms timeout of generate()'s finally: setLoading(false)
LoadingTimeout ==
  /\ report.timers > 0
  /\ report' = [report EXCEPT !.stage = "shown", !.timers = @ - 1]
  /\ pcm' = pcm /\ mountedAt' = mountedAt
  /\ vision' = vision /\ vcall' = NoVCall
  /\ UNCHANGED lifeVars
  /\ op' = NoOp /\ call' = NoCall /\ ev' = NoEvent
  /\ UNCHANGED <<now, screenVars, nudgeData, adapterData, playData>>

\* the Restart button of the rendered report, the setup form and its start:
\* the App mounts a new InterviewScreen, whose state and refs are those of a
\* first render, a while after the last one was left. The adapter and the
\* vision service are module singletons and stay as they are. The old
\* screen is taken at rest: its startSession has returned and its timeout has
\* fired.
Restart ==
  /\ ~mounted /\ Rendered(report) = "report"
  /\ ~finishTimer /\ pc \notin {"media", "connect"}
  /\ now + RestartStep <= NowBase + MaxRestarts * RestartStep
  /\ now' = now + RestartStep
  /\ mountedAt' = now'
  /\ mounted' = TRUE
  /\ report' = NoReport
  /\ pc' = "ready"
  /\ hasStarted' = FALSE /\ isConnected' = FALSE /\ errorMsg' = None
  /\ closure' = [hasStarted |-> FALSE, nudges |-> <<>>, aiSpeaking |-> FALSE]
  /\ processorOn' = FALSE
  /\ nudges' = <<>>
  /\ lastNudgeTime' = [t \in NudgeTypes |-> 0]
  /\ nudgeTimers' = {}
  /\ speech' = [peaks |-> 0, startTime |-> 0, lastPeakTime |-> 0]
  /\ stream' = NoStream
  /\ recorder' = "none"
  /\ looping' = FALSE
  /\ finishTimer' = FALSE
  /\ finished' = 0 /\ ends' = 0
  /\ handedOff' = <<>>
  /\ artifact' = None
  /\ nextStartTime' = 0
  /\ ctxState' = "none"
  /\ resumeQ' = <<>>
  /\ scheduled' = <<>>
  /\ aiSpeaking' = FALSE
  /\ speakTimers' = {}
  /\ timeLeft' = durationMinutes * SECONDS
  /\ ticking' = FALSE
  /\ tracks' = "none"
  /\ released' = <<>>
  /\ op' = NoOp /\ call' = NoCall /\ ev' = NoEvent
  /\ vision' = vision /\ vcall' = NoVCall
  /\ UNCHANGED <<nextId, adapterData, clock, msgs, durationMinutes, pcm>>

\* one session after another on the shared adapter
NextSessions ==
  \/ StartSession
  \/ MediaGranted
  \/ MediaDenied
  \/ ConnectResolved
  \/ ConnectRejected
  \/ EndClickedInSession
  \/ FinishTimeout
  \/ Unmount
  \/ ReportSettled
  \/ LoadingTimeout
  \/ Restart

SpecSessions == Init /\ [][NextSessions]_vars

\* the session from start to hand-off, and the report stage after it
NextReport ==
  \/ StartSession
  \/ MediaGranted
  \/ MediaDenied
  \/ ConnectResolved
  \/ ConnectRejected
  \/ EndClicked
  \/ FinishTimeout
  \/ Unmount
  \/ ReportSettled
  \/ LoadingTimeout

SpecReport == Init /\ [][NextReport]_vars

\* ------------------------------------------- the adapter under any client

\* geminiService.connect(...) up to its await
ClientConnect ==
  /\ Unused # {}
  /\ transcript' = <<>>
  /\ remote' = [remote EXCEPT ![Fresh] = "connecting"]
  /\ vision' = vision /\ vcall' = NoVCall
  /\ UNCHANGED appVars
  /\ UNCHANGED lifeVars
  /\ op' = Called("connect")
  /\ call' = NoCall /\ ev' = NoEvent
  /\ UNCHANGED <<now, screenVars, nudgeData, session, sent, wakeTimers, playData>>

\* the channel of a connect call opened: the rest of connect
ClientConnected ==
  /\ \E k \in Sessions : remote[k] = "connecting" /\ Connected(k)
  /\ vision' = vision /\ vcall' = NoVCall
  /\ UNCHANGED appVars
  /\ UNCHANGED lifeVars
  /\ op' = NoOp /\ call' = NoCall /\ ev' = NoEvent
  /\ UNCHANGED <<now, screenVars, nudgeData, transcript, playData>>

\* the channel of a connect call could not be opened: connect's catch calls
\* onError and returns null
ClientConnectFailed ==
  /\ \E k \in Sessions :
       remote[k] = "connecting" /\ remote' = [remote EXCEPT ![k] = "failed"]
  /\ errorMsg' = "connection"
  /\ vision' = vision /\ vcall' = NoVCall
  /\ UNCHANGED appVars
  /\ UNCHANGED lifeVars
  /\ op' = Called("connect failed") /\ call' = NoCall /\ ev' = NoEvent
  /\ UNCHANGED <<now, pc, hasStarted, isConnected, closure, processorOn, recorder,
                 looping, finishTimer, finished, handedOff, nudgeData, session,
                 transcript, sent, wakeTimers, playData>>

\* geminiService.sendAudioChunk(data)
ClientSendAudio ==
  /\ session = NoSession \/ Len(sent) < MaxSent
  /\ sent' = SendAudioChunk(sent, "mic", NoSession, session, remote)
  /\ vision' = vision /\ vcall' = NoVCall
  /\ UNCHANGED appVars
  /\ UNCHANGED lifeVars
  /\ op' = Called("sendAudioChunk")
  /\ call' = NoCall /\ ev' = NoEvent
  /\ UNCHANGED <<now, screenVars, nudgeData, session, transcript, remote,
                 wakeTimers, playData>>

\* geminiService.sendVideoFrame(base64)
ClientSendVideo ==
  /\ session = NoSession \/ Len(sent) < MaxSent
  /\ sent' = SendVideoFrame(sent, session, remote)
  /\ vision' = vision /\ vcall' = NoVCall
  /\ UNCHANGED appVars
  /\ UNCHANGED lifeVars
  /\ op' = Called("sendVideoFrame")
  /\ call' = NoCall /\ ev' = NoEvent
  /\ UNCHANGED <<now, screenVars, nudgeData, session, transcript, remote,
                 wakeTimers, playData>>

\* geminiService.sendWakeupSignal(): a tone now and one 200 ms later, on
\* this.session
ClientWake ==
  /\ session = NoSession \/ Len(sent) < MaxSent
  /\ sent' = SendAudioChunk(sent, "wake", NoSession, session, remote)
  /\ wakeTimers' = IF session = NoSession THEN wakeTimers
                   ELSE wakeTimers \cup {[s |-> session, due |-> now + WAKE_REPEAT_MS]}
  /\ vision' = vision /\ vcall' = NoVCall
  /\ UNCHANGED appVars
  /\ UNCHANGED lifeVars
  /\ op' = Called("sendWakeupSignal")
  /\ call' = NoCall /\ ev' = NoEvent
  /\ UNCHANGED <<now, screenVars, nudgeData, session, transcript, remote, playData>>

\* geminiService.disconnect(): close the session if there is one, forget it
ClientDisconnect ==
  /\ remote' = IF session # NoSession /\ remote[session] = "open"
               THEN [remote EXCEPT ![session] = "closed"]
               ELSE remote
  /\ session' = NoSession
  /\ vision' = vision /\ vcall' = NoVCall
  /\ UNCHANGED appVars
  /\ UNCHANGED lifeVars
  /\ op' = Called("disconnect")
  /\ call' = NoCall /\ ev' = NoEvent
  /\ UNCHANGED <<now, screenVars, nudgeData, transcript, sent, wakeTimers, playData>>

\* the outbound side of the streaming adapter, driven by any client, with the
\* remote endpoint closing or failing the channel
NextAdapter ==
  \/ ClientConnect
  \/ ClientConnected
  \/ ClientConnectFailed
  \/ ClientSendAudio
  \/ ClientSendVideo
  \/ ClientWake
  \/ ClientDisconnect
  \/ RemoteClosed
  \/ RemoteError
  \/ WakeTimeout
  \/ ShortWait

SpecAdapter == Init /\ [][NextAdapter]_vars

\* the adapter on channels that only disconnect() closes
NextWake ==
  \/ ClientConnect
  \/ ClientConnected
  \/ ClientConnectFailed
  \/ ClientSendAudio
  \/ ClientSendVideo
  \/ ClientWake
  \/ ClientDisconnect
  \/ WakeTimeout
  \/ ShortWait

SpecWake == Init /\ [][NextWake]_vars

\* the inbound side of the streaming adapter: the messages of the remote
\* endpoint on the channels any client opens and closes
NextInbound ==
  \/ ClientConnect
  \/ ClientConnected
  \/ ClientConnectFailed
  \/ ClientDisconnect
  \/ OnMessage
  \/ RemoteClosed
  \/ RemoteError
  \/ ShortWait

SpecInbound == Init /\ [][NextInbound]_vars

\* ------------------------------------------------------------ PCM codec

\* the sample values fed to the codec, in 1 / Unit: full scale, just inside
\* it, beyond it, around zero and in between
Samples == {-(Unit + Unit \div 2), -Unit, -(Unit - 1), -(Unit \div 2 + 1), -1, 0, 1,
            Unit \div 2 + 1, Unit - 1, Unit, Unit + Unit \div 2}
Chunks == UNION {[1..n -> Samples] : n \in 1..MaxChunk}

\* the integer part of a / b, towards zero, as the typed-array conversions do
Trunc(a, b) == IF a >= 0 THEN a \div b ELSE -((-a) \div b)

\* the conversion of a number to Int16: modulo 2^16 into -32768..32767
ToInt16(v) ==
  LET m == v % INT16_SIZE
  IN IF m >= INT16_SIZE \div 2 THEN m - INT16_SIZE ELSE m

\* Math.max(-1, Math.min(1, x))
Clamp(x) == IF x < -Unit THEN -Unit ELSE IF x > Unit THEN Unit ELSE x

\* floatTo16BitPCM: one sample, clamped, scaled by 0x8000 or 0x7FFF, setInt16
FloatTo16BitPCM(x) ==
  LET c == Clamp(x)
  IN ToInt16(Trunc(IF c < 0 THEN c * PCM_NEG ELSE c * PCM_POS, Unit))

\* sendAudioChunk: int16[i] = float32Data[i] * 32768
EncodeSample(x) == ToInt16(Trunc(x * PCM_NEG, Unit))

\* the Int16Array sendAudioChunk builds from its Float32Array
EncodeChunk(xs) == [i \in DOMAIN xs |-> EncodeSample(xs[i])]

\* decodePCMData: pcmData[i] / 32768.0, as the fraction k / 32768; the
\* distance of the decoded sample from x, in 1 / (32768 * Unit)
DecodeError(x, k) ==
  LET e == x * PCM_NEG - k * Unit
  IN IF e < 0 THEN -e ELSE e

\* geminiService.sendAudioChunk(float32Data) with the samples of the chunk
ClientSendSamples ==
  /\ session = NoSession \/ Len(sent) < MaxSent
  /\ sent' = SendAudioChunk(sent, "mic", NoSession, session, remote)
  /\ \E xs \in Chunks :
       pcm' = IF session = NoSession THEN pcm
              ELSE [op |-> "sendAudioChunk", samples |-> xs, data |-> EncodeChunk(xs),
                    open |-> remote[session] = "open"]
  /\ report' = report /\ mountedAt' = mountedAt
  /\ vision' = vision /\ vcall' = NoVCall
  /\ UNCHANGED lifeVars
  /\ op' = Called("sendAudioChunk")
  /\ call' = NoCall /\ ev' = NoEvent
  /\ UNCHANGED <<now, screenVars, nudgeData, session, transcript, remote,
                 wakeTimers, playData>>

\* floatTo16BitPCM(float32Array) applied to a chunk
PackSamples ==
  /\ \E xs \in Chunks :
       pcm' = [op |-> "floatTo16BitPCM", samples |-> xs,
               data |-> [i \in DOMAIN xs |-> FloatTo16BitPCM(xs[i])], open |-> FALSE]
  /\ report' = report /\ mountedAt' = mountedAt
  /\ vision' = vision /\ vcall' = NoVCall
  /\ UNCHANGED lifeVars
  /\ op' = NoOp /\ call' = NoCall /\ ev' = NoEvent
  /\ UNCHANGED <<now, screenVars, nudgeData, adapterData, playData>>

\* the PCM codec of the adapter, with any client sending chunks
NextCodec ==
  \/ ClientConnect
  \/ ClientConnected
  \/ ClientConnectFailed
  \/ ClientSendSamples
  \/ PackSamples
  \/ ClientDisconnect

SpecCodec == Init /\ [][NextCodec]_vars

\* ------------------------------------ the vision service under any client

\* timestamps a client passes to analyze
Stamps == -1..MaxStamp

Quiet ==
  /\ call' = NoCall /\ ev' = NoEvent /\ op' = NoOp
  /\ UNCHANGED <<now, screenVars, nudgeData, adapterData, playData, lifeVars, appVars>>

\* visionService.initialize() settles
VisionInitialize ==
  /\ \E loaded \in BOOLEAN : vision' = Initialize(vision, loaded)
  /\ vcall' = [NoVCall EXCEPT !.name = "initialize", !.before = vision]
  /\ Quiet

\* visionService.reset()
VisionReset ==
  /\ vision' = Reset(vision)
  /\ vcall' = [NoVCall EXCEPT !.name = "reset", !.before = vision]
  /\ Quiet

\* visionService.analyze(video, ts)
VisionAnalyze ==
  /\ \E ts \in Stamps, det \in Detections :
       /\ vision' = Analyzed(vision, ts, det)
       /\ vcall' = [NoVCall EXCEPT !.name = "analyze", !.ts = ts, !.before = vision,
                                   !.detected = Accepts(vision, ts),
                                   !.threw = Accepts(vision, ts) /\ det.throws,
                                   !.result = AnalyzeResult(vision, ts, det)]
  /\ Quiet

\* visionService.getSummary()
VisionGetSummary ==
  /\ vision' = vision
  /\ vcall' = [NoVCall EXCEPT !.name = "getSummary", !.before = vision,
                              !.summary = Summary(vision)]
  /\ Quiet

NextVision ==
  \/ VisionInitialize
  \/ VisionReset
  \/ VisionAnalyze
  \/ VisionGetSummary

SpecVision == Init /\ [][NextVision]_vars

\* ------------------------------------------------------------- claims

\* C1: in every reachable state the active nudge set holds at most one nudge.
AtMostOneNudge == Len(nudges) <= 1

\* a nudge is shown while the removal timeout of an earlier nudge is pending
ReplacedNudgeShown ==
  /\ Len(nudges) = 1
  /\ \E tm \in nudgeTimers : tm.id # nudges[1].id

\* C2: a trigger that arrives while a nudge is active is rejected, and the
\* active nudge stays in place.
ActiveNudgeBlocksTrigger ==
  (call.type # None /\ call.active > 0) => ~call.admitted

\* C3: a trigger of a category less than NUDGE_COOLDOWN ms after the last
\* admitted nudge of that category is not admitted; one NUDGE_COOLDOWN ms or
\* more after it, with no nudge active, is admitted: it is the nudge shown and
\* the ledger holds its time.
CooldownRule ==
  call.type # None =>
    /\ (call.last > 0 /\ call.at - call.last < NUDGE_COOLDOWN) =>
         (~call.admitted /\ lastNudgeTime[call.type] = call.last)
    /\ (call.at - call.last >= NUDGE_COOLDOWN /\ call.active = 0) =>
         /\ call.admitted
         /\ Len(nudges) = 1
         /\ nudges[1].type = call.type
         /\ nudges[1].timestamp = call.at
         /\ lastNudgeTime[call.type] = call.at

\* a repeat of a category is admitted exactly NUDGE_COOLDOWN ms after the
\* last admitted nudge of that category
RepeatAdmittedAtCooldown ==
  /\ call.type # None
  /\ call.admitted
  /\ call.active = 0
  /\ call.last > 0
  /\ call.at - call.last = NUDGE_COOLDOWN

\* C4: no two scheduled segments overlap: each segment starts no earlier
\* than the start of the segment scheduled before it plus that segment's
\* duration.
NoOverlap ==
  \A i \in 1..(Len(scheduled) - 1) :
    scheduled[i + 1].start >= scheduled[i].start + scheduled[i].dur

\* a segment that arrived before its predecessor had played out, scheduled
\* back to back with it
BackToBackScheduled ==
  /\ Len(scheduled) >= 2
  /\ ev.kind = "scheduled"
  /\ ev.clockAt < ev.cursorBefore
  /\ scheduled[Len(scheduled)].start =
       scheduled[Len(scheduled) - 1].start + scheduled[Len(scheduled) - 1].dur

\* C5: a successful enqueue schedules the segment at the maximum of the
\* cursor and the playback clock and leaves the cursor at that start plus the
\* segment's duration, its sample count over 24000 Hz; no step decreases the
\* cursor.
EnqueueStep ==
  /\ nextStartTime' >= nextStartTime
  /\ Len(scheduled') > Len(scheduled) =>
       LET e == scheduled'[Len(scheduled')]
       IN /\ Len(scheduled') = Len(scheduled) + 1
          /\ e.start = Max(nextStartTime, clock)
          /\ e.dur * OUT_RATE = (ev'.bytes \div 2) * 1000
          /\ nextStartTime' = e.start + e.dur
EnqueueRule == [][EnqueueStep]_vars

\* a segment scheduled at the clock because the cursor had fallen behind it
ScheduledAtClockAfterGap ==
  /\ Len(scheduled) >= 2
  /\ ev.kind = "scheduled"
  /\ ev.cursorBefore > 0
  /\ ev.clockAt > ev.cursorBefore
  /\ scheduled[Len(scheduled)].start = ev.clockAt

\* C6: segments play in the order they arrived: a segment that arrived
\* earlier never starts later than one that arrived after it, also when they
\* waited for the audio context to resume.
ArrivalOrderKept ==
  \A i, j \in DOMAIN scheduled :
    scheduled[i].seg < scheduled[j].seg => scheduled[i].start <= scheduled[j].start

\* C7 as stated: a failed decode leaves the cursor at the value it had before
\* the enqueue.
DroppedKeepsCursor == ev.kind = "dropped" => nextStartTime = ev.cursorBefore

\* C7: a failed decode schedules nothing and does not advance the cursor by
\* the dropped segment: the cursor is left at the maximum of its value before
\* the enqueue and the playback clock.
DroppedStep ==
  (\/ ev'.kind = "dropped"
   \/ \E i \in DOMAIN resumeQ :
        i = 1 /\ resumeQ' = Tail(resumeQ) /\ DecodeThrows(resumeQ[i].bytes)) =>
    /\ scheduled' = scheduled
    /\ nextStartTime' = Max(nextStartTime, clock)
DroppedRule == [][DroppedStep]_vars

\* a segment whose decode failed while the clock was past the cursor
DroppedWithClockAhead ==
  /\ ev.kind = "dropped"
  /\ ev.clockAt > ev.cursorBefore
  /\ nextStartTime = ev.clockAt

\* C8: a malformed inbound audio payload never makes the message handler
\* throw, and the transcript parts of the same message are appended.
MalformedAudioTolerated ==
  ev.kind # None => ~ev.threw /\ Len(transcript) = ev.before + ev.texts

\* C9: the adapter goes Disconnected, Connecting, Connected, Disconnected and
\* is Disconnected after an error or a close of the channel: it holds a
\* session only while the channel of that session is open.
DisconnectedAfterClose == session # NoSession => remote[session] = "open"

\* the inputs of a log that reached an open channel
Transmitted(log) == {i \in DOMAIN log : log[i].open}

\* C10: sendAudioChunk and sendVideoFrame called while the adapter is not
\* connected transmit nothing, raise no error and queue nothing: no input
\* reaches the remote endpoint, no timer is set, the error state is as before,
\* and without a session nothing is handed to any session.
IdleSendsNothing ==
  (op.name \in {"sendAudioChunk", "sendVideoFrame"} /\ ~op.open) =>
    /\ Transmitted(sent) = Transmitted(op.sentBefore)
    /\ wakeTimers = op.timersBefore
    /\ errorMsg = op.errorBefore
    /\ ~op.hadSession => sent = op.sentBefore

\* a frame sent after disconnect() has dropped a session that had been used
FrameSentAfterDisconnect ==
  /\ op.name = "sendVideoFrame"
  /\ ~op.hadSession
  /\ Len(op.sentBefore) > 0
  /\ \E k \in Sessions : remote[k] = "closed"

\* C11: a connect that cannot establish the channel reports through the error
\* callback, returns to its caller, and leaves the adapter with no session.
FailedConnectLeavesNoSession ==
  op.name = "connect failed" => errorMsg = "connection" /\ session = NoSession

\* the items of a sequence with a given role
WithRole(items, role) == {i \in DOMAIN items : items[i].role = role}

\* C12: within a session the transcript is append-only and in arrival order:
\* every model-text, output-transcription and input-transcription part of an
\* inbound message appends exactly one item (role model, model, user) and
\* forwards it to the transcript callback, and the items already there stay
\* in place.
EveryPartAppended ==
  ev.kind # None =>
    LET added == SubSeq(transcript, Len(ev.had) + 1, Len(transcript))
    IN /\ Len(transcript) >= Len(ev.had)
       /\ SubSeq(transcript, 1, Len(ev.had)) = ev.had
       /\ Len(added) = Cardinality(ev.parts)
       /\ Cardinality(WithRole(added, "user")) = Cardinality(ev.parts \cap {"in"})
       /\ Cardinality(WithRole(added, "model")) = Cardinality(ev.parts \cap {"text", "out"})
       /\ ev.forwarded = added

\* C13: analyze called with a timestamp at or below the last accepted one, or
\* with a timestamp that is not positive, returns null, does not run the
\* detection, and leaves the frame counters and the last accepted timestamp
\* as they were.
StaleTimestampRejected ==
  (vcall.name = "analyze" /\ (vcall.ts <= vcall.before.lastTimestamp \/ vcall.ts <= 0)) =>
    /\ vcall.result.null
    /\ ~vcall.detected
    /\ vision = vcall.before

\* an initialized service asked to analyze the timestamp it accepted last
RepeatedTimestampAnalyzed ==
  /\ vcall.name = "analyze"
  /\ vcall.before.isInitialized
  /\ vcall.before.totalFrames > 0
  /\ vcall.ts = vcall.before.lastTimestamp

\* C14: getSummary on a service that analyzed no frame successfully gives the
\* no-data text, and it computes a percentage only over a positive frame
\* count.
NoFramesNoData ==
  vcall.name = "getSummary" =>
    /\ vcall.before.totalFrames = 0 => vcall.summary.noData
    /\ ~vcall.summary.noData =>
         /\ vcall.before.totalFrames > 0
         /\ vcall.summary.eyeContactPct \in 0..100
         /\ vcall.summary.posturePct \in 0..100

\* the summary asked for after every analyze of the session returned null
SummaryAfterFailedAnalyses ==
  /\ vcall.name = "getSummary"
  /\ vcall.before.isInitialized
  /\ vcall.before.lastTimestamp > 0
  /\ vcall.before.totalFrames = 0
  /\ vcall.summary.noData

\* C15: the countdown starts at durationMinutes * 60 once connected, goes down
\* by exactly one per tick of its one-second interval, never goes below zero,
\* and the tick that reaches zero calls handleEndSession.
CountdownStep ==
  /\ timeLeft \in 0..(durationMinutes * SECONDS)
  /\ (~ticking /\ ticking') => (isConnected' /\ timeLeft' = durationMinutes * SECONDS)
  /\ timeLeft' # timeLeft => (ticking /\ timeLeft' = timeLeft - 1 /\ timeLeft' >= 0)
  /\ (timeLeft' = 0 /\ timeLeft # 0) => ends' = ends + 1
CountdownRule == [][CountdownStep]_vars

\* the countdown ran from the configured duration down to zero and ended the
\* session
CountdownReachedZero ==
  ticking /\ timeLeft = 0 /\ ends = 1 /\ finished > 0

\* C16: handleEndSession appends the visual summary as a system note and
\* always gets to the hand-off: with a recorder that never started or is
\* inactive it hands the transcript off at once with a null artifact, with an
\* active recorder it stops it and the transcript is handed off with the
\* recording when the timeout fires.
EndStep ==
  /\ ends' = ends + 1 =>
       /\ transcript' = Append(transcript, [role |-> "SYSTEM_NOTE",
                                            text |-> SummaryText(vision),
                                            timestamp |-> now])
       /\ recorder # "recording" =>
            (finished' = finished + 1 /\ artifact' = "null" /\ handedOff' = transcript')
       /\ recorder = "recording" => (recorder' = "inactive" /\ finishTimer')
  /\ (finishTimer /\ ~finishTimer') =>
       (finished' = finished + 1 /\ artifact' = "blob" /\ handedOff' = transcript)
HandOffRule ==
  /\ [][EndStep]_vars
  /\ (finished < ends) ~> (finished = ends)

\* a session ended before its recorder was ever started, handed off with null
EndedBeforeRecording ==
  /\ ends = 1 /\ finished = 1
  /\ recorder = "none"
  /\ artifact = "null"
  /\ Len(handedOff) = 1 /\ handedOff[1].role = "SYSTEM_NOTE"

\* C17: the unmount cleanup cancels the loop, stops the camera and microphone
\* tracks, closes the capture and the playback context and closes the remote
\* channel, in that order and each whatever became of the others: when it has
\* run, none of them is left.
TeardownReleasesAll ==
  (op.name = "disconnect" /\ ~mounted) =>
    /\ ~looping
    /\ tracks # "live"
    /\ ~processorOn
    /\ ctxState \notin {"running", "suspended"}
    /\ session = NoSession
    /\ \A k \in Sessions : remote[k] # "open"

\* C18: after teardown no timer of the session is left to fire: the countdown
\* interval, the nudge removal timeouts and the speaking-indicator timeouts
\* are cleared.
NoTimerAfterTeardown ==
  ~mounted => (~ticking /\ nudgeTimers = {} /\ speakTimers = {})

\* C19: a buffer stream with exactly 10 qualifying peaks evenly spaced across
\* the 3 second window triggers neither "too fast" nor "uncertain" when the
\* next buffer of the stream evaluates the window.
TenPeaksNoTrigger ==
  (stream.last.evaluated /\ stream.last.peaks = 10) => stream.last.trigger = None

\* a window of crossings 300 ms apart was evaluated with ten peaks counted
TenPeaksEvaluated ==
  /\ stream.gap = 300
  /\ stream.last.evaluated
  /\ stream.last.crossings = 10
  /\ stream.last.peaks = 10
  /\ stream.last.elapsed = WINDOW_MS + 300

\* C20: a buffer stream with 20 threshold crossings evenly spaced across the
\* 3 second window, one every 150 ms, triggers "too fast" when the window is
\* evaluated.
TwentyCrossingsTooFast ==
  (stream.last.evaluated /\ stream.gap = MIN_PEAK_DIST /\ stream.last.crossings = 20) =>
    stream.last.trigger = "fast"

\* C21: every audio chunk transmitted to the remote endpoint is encoded with
\* each sample clamped to [-1,1], negatives scaled by 32768 and the others by
\* 32767: a sample of +1.0 or above is sent as 32767, never as a negative value.
SentClampedAndScaled ==
  (pcm.op = "sendAudioChunk" /\ pcm.open) =>
    \A i \in DOMAIN pcm.samples :
      /\ pcm.data[i] = FloatTo16BitPCM(pcm.samples[i])
      /\ pcm.samples[i] >= Unit => pcm.data[i] = PCM_POS

\* C22: for samples in [-1,1], decoding the encoding of a chunk gives every
\* sample back with an absolute error of at most 1/32768.
RoundTripWithinQuantum ==
  pcm.op # None =>
    \A i \in DOMAIN pcm.samples :
      (pcm.samples[i] >= -Unit /\ pcm.samples[i] <= Unit) =>
        DecodeError(pcm.samples[i], pcm.data[i]) <= Unit

\* C23: whatever the report call comes to, the report stage leaves its loading
\* state with a structurally complete report: the generated one, or the
\* substituted one when the generation failed.
ReportAlwaysComplete ==
  report.stage = "shown" => (Complete(report.data) /\ Rendered(report) = "report")

\* C24: a camera/microphone failure during session start leaves the error
\* screen with the session not started and not connected: no remote connection
\* was attempted, the countdown does not run, and nothing starts the session
\* again.
MediaFailureState ==
  (pc = "failed" /\ tracks = "none") =>
    /\ errorMsg = "media"
    /\ ~hasStarted /\ ~isConnected /\ ~ticking /\ ~looping
    /\ session = NoSession
    /\ \A k \in Sessions : remote[k] = "none"
    /\ timeLeft = durationMinutes * SECONDS
    /\ recorder = "none"
MediaFailureStep ==
  /\ (pc = "media" /\ pc' = "failed") => (remote' = remote /\ tracks' = "none")
  /\ pc = "failed" => (pc' = "failed" /\ hasStarted' = hasStarted)
IdsShown(ns) == {ns[i].id : i \in DOMAIN ns}

\* C25: an admitted nudge stays shown for its display time: its removal
\* timeout is set for 5000 ms after its creation, no step takes it out of the
\* nudges shown before that, and a removal timeout takes out the nudge with
\* its own id only, never one admitted later.
DisplayStep ==
  /\ \A i \in DOMAIN nudges' :
       \E tm \in nudgeTimers' :
         tm.id = nudges'[i].id /\ tm.due = nudges'[i].timestamp + NUDGE_DISPLAY_TIME
  /\ \A i \in DOMAIN nudges :
       nudges[i].id \notin IdsShown(nudges') =>
         now' >= nudges[i].timestamp + NUDGE_DISPLAY_TIME
  /\ (nudgeTimers' # nudgeTimers /\ nudgeTimers' \subseteq nudgeTimers) =>
       \E tm \in nudgeTimers \ nudgeTimers' :
         /\ now >= tm.due
         /\ IdsShown(nudges') = IdsShown(nudges) \ {tm.id}
DisplayRule == [][DisplayStep]_vars

\* the removal timeout of a replaced nudge has fired while the nudge admitted
\* after it is still shown
LaterNudgeOutlivesTimer ==
  /\ Len(nudges) = 1
  /\ nudgeTimers = {[id |-> nudges[1].id, due |-> nudges[1].timestamp + NUDGE_DISPLAY_TIME]}
  /\ nudges[1].id > 1
  /\ now = nudges[1].timestamp

\* C26: after every enqueue of an inbound audio segment the speaking indicator
\* is on for the 200 ms that follow it, also when an earlier enqueue happened
\* less than 200 ms before: while the 200 ms of some enqueue have not passed,
\* the indicator is on.  The first 200 ms of the clock are looked at, where a
\* timeout that has fired was set at the start and fired exactly when due, and
\* an enqueue that lies strictly between the start and the present.
SpeakingForFullPulse ==
  (/\ now <= NowBase + SPEAKING_MS
   /\ \E due \in speakTimers : now < due /\ due < now + SPEAKING_MS)
    => aiSpeaking

\* C29: no speech-rate trigger is emitted for a window that is evaluated while
\* the speaking indicator is on.
SilentWhileSpeaking ==
  (aiSpeaking /\ \E due \in speakTimers : now < due) => call.type = None

\* C27: on an analyzed buffer that finds the window older than 3000 ms, the
\* analyzer emits 'too fast' iff the window holds more than 2 peaks at more
\* than 4.5 per second, 'uncertain' iff it holds more than 2 peaks at fewer
\* than 1.5 per second, and nothing otherwise; the window restarts at the
\* time of the buffer with no peaks before the buffer's peaks are counted, so
\* it holds at most the one peak of this buffer afterwards.  A step that
\* changes the window record is a run of the analyzer; nothing is emitted on a
\* window that is not over.
EvaluationStep ==
  LET e == now' - speech.startTime
      p == speech.peaks
  IN /\ (speech' # speech /\ e > WINDOW_MS) =>
          /\ (call'.message = "fast") <=> (p > 2 /\ 10000 * p > 45 * e)
          /\ (call'.message = "uncertain") <=> (p > 2 /\ 10000 * p < 15 * e)
          /\ call'.type \in {None, "audio"}
          /\ call'.message \in {None, "fast", "uncertain"}
          /\ call'.type = None <=> call'.message = None
          /\ speech'.startTime = now'
          /\ speech'.peaks \in {0, 1}
          /\ speech'.peaks = 1 <=> speech'.lastPeakTime # speech.lastPeakTime
          /\ speech'.peaks = 1 => speech'.lastPeakTime = now'
     /\ call'.type # None => e > WINDOW_MS

EvaluationRule == [][EvaluationStep]_vars

\* a window has just been found too fast and restarted with this buffer's peak
FastWindowRestarted ==
  /\ call.message = "fast"
  /\ speech.startTime = now
  /\ speech.peaks = 1
  /\ stream.last.evaluated
  /\ stream.last.peaks > 2

\* C28: a rising edge is counted as a peak iff at least 150 ms have passed
\* since the last counted peak, a crossing exactly 150 ms after it included.
\* On a stream with one crossing per buffer and buffers at least 150 ms apart
\* every crossing is then counted: the last counted peak is the crossing of
\* the buffer just handled.
EveryDistantCrossingCounted ==
  (stream.gap # 0 /\ stream.gap >= MIN_PEAK_DIST) => speech.lastPeakTime = now

\* C30: while a session is started and the camera delivers frames, the polling
\* loop keeps running until teardown: once startSession has come to its end
\* on a mounted, started screen with live tracks, a frame is requested for the
\* next tick of the loop.
PollingWhileStarted ==
  (pc = "running" /\ mounted /\ hasStarted /\ tracks = "live") => looping

\* C32: when the landmark detection throws inside analyze, the call returns
\* null like any other call (the exception is caught inside, so the caller's
\* loop goes on) and the frame counters are as they were before the call; the
\* service stays initialized for the next tick.
ThrowingDetectionCaught ==
  (vcall.name = "analyze" /\ vcall.threw) =>
    /\ vcall.result = NullResult
    /\ vision.totalFrames = vcall.before.totalFrames
    /\ vision.eyeContactFrames = vcall.before.eyeContactFrames
    /\ vision.goodPostureFrames = vcall.before.goodPostureFrames
    /\ vision.isInitialized

\* the detection threw on a service that had counted frames before
DetectionThrewAfterFrames ==
  /\ vcall.name = "analyze"
  /\ vcall.threw
  /\ vcall.before.totalFrames > 0
  /\ vcall.before.eyeContactFrames > 0

\* C33: the visual counters are zero after a reset (startSession resets, and
\* so does a first successful initialize); a successfully analyzed frame adds
\* exactly one to totalFrames and at most one to eyeContactFrames and to
\* goodPostureFrames; no call but a reset lowers a counter; and always
\* eyeContactFrames <= totalFrames and goodPostureFrames <= totalFrames, so
\* the two percentages of a summary lie in 0..100.
CounterState ==
  /\ vision.totalFrames >= 0
  /\ vision.eyeContactFrames \in 0..vision.totalFrames
  /\ vision.goodPostureFrames \in 0..vision.totalFrames
  /\ vcall.name = "reset" =>
       /\ vision.totalFrames = 0
       /\ vision.eyeContactFrames = 0
       /\ vision.goodPostureFrames = 0
  /\ vcall.name = "getSummary" =>
       /\ vcall.summary.eyeContactPct \in 0..100
       /\ vcall.summary.posturePct \in 0..100

CounterStep ==
  /\ (vcall'.name = "analyze" /\ ~vcall'.result.null) =>
       /\ vision'.totalFrames = vision.totalFrames + 1
       /\ vision'.eyeContactFrames - vision.eyeContactFrames \in {0, 1}
       /\ vision'.goodPostureFrames - vision.goodPostureFrames \in {0, 1}
  /\ (vcall'.name = "analyze" /\ vcall'.result.null) =>
       /\ vision'.totalFrames = vision.totalFrames
       /\ vision'.eyeContactFrames = vision.eyeContactFrames
       /\ vision'.goodPostureFrames = vision.goodPostureFrames
  /\ vcall'.name \notin {"reset", "initialize"} =>
       /\ vision'.totalFrames >= vision.totalFrames
       /\ vision'.eyeContactFrames >= vision.eyeContactFrames
       /\ vision'.goodPostureFrames >= vision.goodPostureFrames

CounterRule == []CounterState /\ [][CounterStep]_vars

\* a second frame was analyzed with an eye-contact issue after a first without
FrameCountedWithIssue ==
  /\ vcall.name = "analyze"
  /\ ~vcall.result.null
  /\ vcall.result.eyeContactIssue
  /\ vision.totalFrames = 2
  /\ vision.eyeContactFrames = 1

\* C34: every item of the transcript, the visual summary injected at the end
\* of the session included, has one of the roles user, model and system.
TranscriptRolesKnown ==
  \A i \in DOMAIN transcript : transcript[i].role \in {"user", "model", "system"}

\* C35: on a successful open the adapter sends the wake tone at once, before
\* any microphone chunk goes out on that session: the step that sets the
\* session appends the wake tone for it, and the first input of every session
\* is a wake tone.
WakeFirstState ==
  \A i \in DOMAIN sent :
    (\A h \in 1..(i - 1) : sent[h].s # sent[i].s) => sent[i].kind = "wake"

WakeFirstStep ==
  (session' # session /\ session' # NoSession) =>
    /\ Len(sent') = Len(sent) + 1
    /\ sent'[Len(sent')] = [s |-> session', kind |-> "wake", open |-> TRUE]
    /\ \A h \in DOMAIN sent : sent[h].s # session'

WakeFirstRule == []WakeFirstState /\ [][WakeFirstStep]_vars

\* a microphone chunk has gone out on a session after its wake tone
MicAfterWake ==
  \E i, j \in DOMAIN sent :
    /\ i < j
    /\ sent[i].s = sent[j].s
    /\ sent[i].kind = "wake"
    /\ sent[j].kind = "mic"
    /\ sent[j].open

\* C36: whenever the mounted interview screen holds itself connected
\* (isConnected set, the countdown interval running), the adapter holds a
\* session; a connect that failed does not set isConnected.
ConnectedHoldsSession ==
  (mounted /\ (isConnected \/ ticking)) => session # NoSession

\* C37: whatever the interleaving of End clicks, the countdown reaching zero
\* and the recorder's 500 ms delay, the session is handed off at most once, and
\* a transcript that was handed off holds exactly one visual summary item.
HandedOffOnce ==
  /\ finished <= 1
  /\ finished >= 1 => Cardinality(WithRole(handedOff, "SYSTEM_NOTE")) = 1

\* C38: after disconnect() no audio or image input goes out on the session it
\* closed, the second wake tone included: where only disconnect() closes a
\* channel, every input is handed to a session whose channel is open.
NoInputAfterDisconnect ==
  \A i \in DOMAIN sent : sent[i].open

\* C39: after the interview screen was torn down the adapter holds no open
\* session, also when the teardown came while connect was pending, and the
\* rest of startSession starts no recorder: a screen that was unmounted before
\* it was connected has no session, no open channel and no running recorder.
NothingStartsAfterTeardown ==
  (~mounted /\ ~isConnected) =>
    /\ session = NoSession
    /\ \A k \in Sessions : remote[k] # "open"
    /\ recorder # "recording"

\* C40: the transcript handed to the report stage holds only items created
\* during the session that is handed off, whatever sessions ran before on
\* the adapter: no item is older than the mount of the screen that hands off.
HandedOffFromThisSession ==
  \A i \in DOMAIN handedOff : handedOff[i].timestamp >= mountedAt

====
